---- MODULE Spec2Model ----
(***************************************************************************)
(* Voice presence tracker of the bot (src/main.py): the in-memory session  *)
(* registry (voice_sessions, zero_mark, voice_targets), the gateway        *)
(* handler on_voice_state_update, the /vt zero, /vt unzero and             *)
(* /vt set-voice commands, and the PostgreSQL tables they write.           *)
(*                                                                         *)
(* A coroutine runs atomically from one await to the next, and other       *)
(* coroutines run while it is suspended.  The database executes a          *)
(* statement at the moment the coroutine sends it: no coroutine reads a    *)
(* table except by a statement of its own, so every later instant up to    *)
(* the resumption gives a run with the same steps in another order.  A     *)
(* statement that fails (acquire or execute raises) ends its coroutine.    *)
(*                                                                         *)
(* Optional values (Python None) are sets of at most one element.          *)
(***************************************************************************)
EXTENDS Integers, Sequences, FiniteSets, TLC

\* ---------------------------------------------------------------- bounds
\* The clock stops at MaxTime; the gateway and the users deliver at most
\* MaxEvents notifications and commands.
MaxTime == 2
MaxEvents == 3

\* One guild, two voice channels, one human member and one bot.
GuildIds == {1}
ChannelIds == {1, 2}
MemberIds == {1}
BotIds == {2}
Times == 0..MaxTime

None == {}
Some(x) == {x}
The(o) == CHOOSE x \in o : TRUE
Opt(S) == {None} \cup {Some(x) : x \in S}

Keys == GuildIds \X ChannelIds \X MemberIds

VARIABLES
    database_url,   \* DATABASE_URL is set (main.py:27)
    started,        \* setup_hook has run
    pool,           \* client.pool is not None
    now,            \* the clock utcnow() reads
    voice,          \* member.voice.channel as the library caches it, per guild member
    voice_sessions, \* dict (guild, channel, user) -> start, as its set of items
    zero_mark,      \* set of keys
    voice_targets,  \* dict guild -> set of channels; None where the guild has no entry
    db_targets,     \* table target_voice_channels
    db_sessions,    \* table voice_sessions, in id order
    tasks,          \* the suspended coroutines, oldest first
    events,         \* notifications and commands delivered so far
    last            \* what the latest step did to the registry (history)

vars == <<database_url, started, pool, now, voice, voice_sessions, zero_mark,
          voice_targets, db_targets, db_sessions, tasks, events, last>>

\* ------------------------------------------------------- dict operations
HasKey(d, k) == \E e \in d : e[1] = k
DictGet(d, k) == {e[2] : e \in {x \in d : x[1] = k}}
DictPop(d, k) == {e \in d : e[1] # k}
DictSet(d, k, v) == {e \in d : e[1] # k} \cup {<<k, v>>}

utcnow == now

\* ------------------------------------------------------------ the finalizer
\* save_voice_session up to its await: the end it writes, and whether it
\* returns without writing.
save_end_keep(start, end, zero) == end
save_end(start, end, zero) == IF zero THEN start ELSE end

save_discards_strict(start, end, zero) == ~zero /\ end < start
save_discards_never(start, end, zero) == FALSE
save_discards(start, end, zero) == ~zero /\ end <= start

SameKey(r1, r2) ==
    <<r1.guild_id, r1.channel_id, r1.user_id>> = <<r2.guild_id, r2.channel_id, r2.user_id>>
InsertReplacing(tbl, row) ==
    IF \E i \in 1..Len(tbl) : SameKey(tbl[i], row)
    THEN [i \in 1..Len(tbl) |-> IF SameKey(tbl[i], row) THEN row ELSE tbl[i]]
    ELSE Append(tbl, row)
\* Line 407: INSERT INTO voice_sessions appends one row (id BIGSERIAL).
Insert(tbl, row) == Append(tbl, row)

Row(gid, cid, uid, s, e) ==
    [guild_id |-> gid, channel_id |-> cid, user_id |-> uid, start_utc |-> s, end_utc |-> e]

\* ------------------------------------------------- on_voice_state_update
\* Lines 1180-1184: the close step on the channel left.
CloseStepNoPop(vs, zm, tg, gid, uid, before) ==
    IF before # None /\ The(before) \in tg
    THEN LET key == <<gid, The(before), uid>>
         IN [vs |-> vs, zm |-> zm \ {key}, start |-> DictGet(vs, key),
             z |-> key \in zm, key |-> Some(key)]
    ELSE [vs |-> vs, zm |-> zm, start |-> None, z |-> FALSE, key |-> None]
CloseStepPopDefault(vs, zm, tg, gid, uid, before) ==
    IF before # None /\ The(before) \in tg
    THEN LET key == <<gid, The(before), uid>>
         IN [vs |-> DictPop(vs, key), zm |-> zm \ {key},
             start |-> IF HasKey(vs, key) THEN DictGet(vs, key) ELSE Some(0),
             z |-> key \in zm, key |-> Some(key)]
    ELSE [vs |-> vs, zm |-> zm, start |-> None, z |-> FALSE, key |-> None]
CloseStepKeepsMark(vs, zm, tg, gid, uid, before) ==
    IF before # None /\ The(before) \in tg
    THEN LET key == <<gid, The(before), uid>>
         IN [vs |-> DictPop(vs, key), zm |-> zm, start |-> DictGet(vs, key),
             z |-> key \in zm, key |-> Some(key)]
    ELSE [vs |-> vs, zm |-> zm, start |-> None, z |-> FALSE, key |-> None]
CloseStep(vs, zm, tg, gid, uid, before) ==
    IF before # None /\ The(before) \in tg
    THEN LET key == <<gid, The(before), uid>>
         IN [vs |-> DictPop(vs, key), zm |-> zm \ {key}, start |-> DictGet(vs, key),
             z |-> key \in zm, key |-> Some(key)]
    ELSE [vs |-> vs, zm |-> zm, start |-> None, z |-> FALSE, key |-> None]

\* Lines 1189-1194: the open step on the channel joined.
OpenStepOverwrite(vs, zm, tg, gid, uid, after, t) ==
    IF after # None /\ The(after) \in tg
    THEN LET key == <<gid, The(after), uid>>
         IN [vs |-> DictSet(vs, key, t), zm |-> zm \ {key}, key |-> Some(key)]
    ELSE [vs |-> vs, zm |-> zm, key |-> None]
OpenStepAppend(vs, zm, tg, gid, uid, after, t) ==
    IF after # None /\ The(after) \in tg
    THEN LET key == <<gid, The(after), uid>>
         IN [vs |-> vs \cup {<<key, t>>}, zm |-> zm \ {key}, key |-> Some(key)]
    ELSE [vs |-> vs, zm |-> zm, key |-> None]
OpenStepAnyZone(vs, zm, tg, gid, uid, after, t) ==
    IF after # None
    THEN LET key == <<gid, The(after), uid>>
         IN [vs |-> IF HasKey(vs, key) THEN vs ELSE DictSet(vs, key, t),
             zm |-> zm \ {key}, key |-> Some(key)]
    ELSE [vs |-> vs, zm |-> zm, key |-> None]
OpenStep(vs, zm, tg, gid, uid, after, t) ==
    IF after # None /\ The(after) \in tg
    THEN LET key == <<gid, The(after), uid>>
         IN [vs |-> IF HasKey(vs, key) THEN vs ELSE DictSet(vs, key, t),
             zm |-> zm \ {key}, key |-> Some(key)]
    ELSE [vs |-> vs, zm |-> zm, key |-> None]

\* Lines 1177-1194 run from the binding of targets to the first await (the
\* INSERT of save_voice_session) or to the end of the handler.
\* out: "await" the INSERT was sent, "raise" the assertion of line 399 failed,
\* "done" the handler returned.
HandlerBody(vs, zm, tg, gid, uid, before, after, clock, pl) ==
    LET c == CloseStep(vs, zm, tg, gid, uid, before)
        o == OpenStep(c.vs, c.zm, tg, gid, uid, after, clock)
    IN IF c.start # None /\ ~pl
       THEN [out |-> "raise", vs |-> c.vs, zm |-> c.zm, start |-> c.start, end |-> Some(clock),
             z |-> c.z, close |-> c.key, open |-> None, cvs |-> c.vs, czm |-> c.zm]
       ELSE IF c.start # None /\ ~save_discards(The(c.start), clock, c.z)
       THEN [out |-> "await", vs |-> c.vs, zm |-> c.zm, start |-> c.start,
             end |-> Some(save_end(The(c.start), clock, c.z)),
             z |-> c.z, close |-> c.key, open |-> None, cvs |-> c.vs, czm |-> c.zm]
       ELSE [out |-> "done", vs |-> o.vs, zm |-> o.zm, start |-> c.start, end |-> None,
             z |-> c.z, close |-> c.key, open |-> o.key, cvs |-> c.vs, czm |-> c.zm]

\* ------------------------------------------------------------ coroutines
\* A suspended coroutine: kind "vsu" (on_voice_state_update), "set_voice"
\* (/vt set-voice in add_voice_target_channel) or "on_ready"; pc "load" (the
\* await of line 395), "save" (line 407) or "ins" (line 384).
Task(kind, pc, gid, uid, before, after, cid, targets, rows) ==
    [kind |-> kind, pc |-> pc, gid |-> gid, uid |-> uid, before |-> before, after |-> after,
     cid |-> cid, targets |-> targets, rows |-> rows]

Remove(s, i) == SubSeq(s, 1, i - 1) \o SubSeq(s, i + 1, Len(s))

HasBudget == events < MaxEvents

\* SELECT channel_id FROM target_voice_channels WHERE guild_id=$1 (line 395)
SelectTargets(db, gid) == {c \in ChannelIds : <<gid, c>> \in db}

\* The set object a suspended handler's local `targets` refers to: the
\* guild's current entry, or the object it was bound to before
\* load_voice_targets_for_guild replaced the entry.
TargetsOf(t) == IF t.targets = None THEN The(voice_targets[t.gid]) ELSE The(t.targets)

\* voice_targets[gid] = <new set> (lines 391, 396): handlers suspended in
\* save_voice_session keep the old object.
Rebind(ts, gid) ==
    [i \in 1..Len(ts) |->
        IF ts[i].pc = "save" /\ ts[i].gid = gid /\ ts[i].targets = None
        THEN [ts[i] EXCEPT !.targets = voice_targets[gid]]
        ELSE ts[i]]

\* The history variable last: what the latest step did to the registry.
\*   close, cstart, cz   the key the close step acted on, and its start and
\*                       zero-mark as the step found them
\*   save                what save_voice_session did: "none" (not called),
\*                       "discard", "ok", "fail" (the INSERT raised),
\*                       "assert" (line 399 raised)
\*   open, ostart, oz    the key the open step acted on, and its start and
\*                       zero-mark as the open step found them
\*   cmd, key, kstart, kz  "zero" or "unzero", the key it acted on, and its
\*                       start and zero-mark as the command found them
\*                       "register": add_voice_target_channel reached line
\*                       388 for zone (guild, channel); kz: the channel was
\*                       in the guild's set already
\*   raised              an exception left the coroutine
\*   ev                  "vsu": the step ran lines 1177-1194 for a notification;
\*                       "bot": it dropped a bot's notification
\*   rows                the number of persisted intervals before the step
\*   member, from_, to, limit   the arguments of a query command (cmd); member
\*                       is (guild, user), or (guild) where no user is given
\*   msg                 the reply of a query command: "sec" a total, "list" a
\*                       ranking, "empty" no record, "csv" a file, "config" no
\*                       DATABASE_URL; sec, list and csv hold what it shows
NoOp == [close |-> None, cstart |-> None, cz |-> FALSE, save |-> "none",
         open |-> None, ostart |-> None, oz |-> FALSE,
         cmd |-> "none", key |-> None, kstart |-> None, kz |-> FALSE, zone |-> None,
         raised |-> FALSE, ev |-> "none", rows |-> 0,
         member |-> None, from_ |-> None, to |-> None, limit |-> 0,
         msg |-> "none", sec |-> 0, list |-> <<>>, csv |-> <<>>]
Quiet == [NoOp EXCEPT !.rows = Len(db_sessions)]

TypeOK ==
    /\ database_url \in BOOLEAN /\ started \in BOOLEAN /\ pool \in BOOLEAN
    /\ now \in Times
    /\ voice \in [GuildIds \X MemberIds -> Opt(ChannelIds)]
    /\ voice_sessions \subseteq Keys \X Times
    /\ zero_mark \subseteq Keys
    /\ voice_targets \in [GuildIds -> Opt(SUBSET ChannelIds)]
    /\ db_targets \subseteq GuildIds \X ChannelIds
    /\ Len(db_sessions) <= MaxEvents
    /\ Len(tasks) <= MaxEvents
    /\ events \in 0..MaxEvents

Init ==
    /\ database_url \in BOOLEAN
    /\ started = FALSE
    /\ pool = FALSE
    /\ now = 0
    /\ voice \in [GuildIds \X MemberIds -> Opt(ChannelIds)]
    /\ voice_sessions = {}
    /\ zero_mark = {}
    /\ voice_targets = [g \in GuildIds |-> None]
    /\ db_targets \in SUBSET (GuildIds \X ChannelIds)
    /\ events = 0
    /\ db_sessions = <<>>
    /\ tasks = <<>>
    /\ last = NoOp

\* client.run (line 1231) as the source is written: the library logs in and
\* calls the client's setup_hook.  The def of line 339 is not indented into
\* class YadoBot (lines 331-337), so the class has the library's hook, which
\* does nothing: client.pool keeps the None of line 335 whatever DATABASE_URL
\* is, and no table is created.
client_run ==
    /\ ~started
    /\ started' = TRUE
    /\ last' = Quiet
    /\ UNCHANGED <<database_url, pool, now, voice, voice_sessions, zero_mark, voice_targets,
                   db_targets, db_sessions, tasks, events>>

\* setup_hook (lines 339-373), the startup of the build in which the def of
\* line 339 is a method of YadoBot: the pool exists iff DATABASE_URL is set.
\* The runs with a pool are those of this build.
setup_hook ==
    /\ ~started
    /\ started' = TRUE
    /\ pool' = database_url
    /\ last' = Quiet
    /\ UNCHANGED <<database_url, now, voice, voice_sessions, zero_mark, voice_targets,
                   db_targets, db_sessions, tasks, events>>

Tick ==
    /\ now < MaxTime
    /\ now' = now + 1
    /\ last' = Quiet
    /\ UNCHANGED <<database_url, started, pool, voice, voice_sessions, zero_mark,
                   voice_targets, db_targets, db_sessions, tasks, events>>

\* Lines 1177-1194 for member uid, as the step of a coroutine that is new
\* (i = 0) or is tasks[i] resuming after its lazy load; ts and vt are the
\* coroutines and the cache as the step found or left them; ok: the INSERT of
\* line 407, if the step sends it, succeeds.
RunHandler(i, ts, vt, gid, uid, before, after, ok) ==
    LET r == HandlerBody(voice_sessions, zero_mark, The(vt[gid]), gid, uid, before, after,
                         utcnow, pool)
        rest == IF i = 0 THEN ts ELSE Remove(ts, i)
        me == Task("vsu", "save", gid, Some(uid), None, after, None, None, {})
        sent == r.out = "await"
    IN /\ ~sent => ok
       /\ voice_sessions' = r.vs
       /\ zero_mark' = r.zm
       /\ db_sessions' = IF sent /\ ok
                         THEN Insert(db_sessions, Row(gid, The(before), uid, The(r.start),
                                                      The(r.end)))
                         ELSE db_sessions
       /\ tasks' = IF sent /\ ok THEN Append(rest, me) ELSE rest
       /\ last' = [Quiet EXCEPT
                      !.close = r.close,
                      !.cstart = IF r.close = None THEN None
                                 ELSE DictGet(voice_sessions, The(r.close)),
                      !.cz = r.close # None /\ The(r.close) \in zero_mark,
                      !.save = IF r.start = None THEN "none"
                               ELSE IF r.out = "raise" THEN "assert"
                               ELSE IF ~sent THEN "discard"
                               ELSE IF ok THEN "ok" ELSE "fail",
                      !.open = r.open,
                      !.ostart = IF r.open = None THEN None ELSE DictGet(r.cvs, The(r.open)),
                      !.oz = r.open # None /\ The(r.open) \in r.czm,
                      !.raised = (r.out = "raise" \/ (sent /\ ~ok)),
                      !.ev = "vsu"]

\* on_voice_state_update (lines 1168-1194) up to its first await.  The
\* library hands over before = the member's cached voice state and caches
\* after.  ok: the statement the step sends, if any, succeeds.
on_voice_state_update(gid, uid, after, ok) ==
    LET before == voice[<<gid, uid>>]
    IN /\ started
       /\ before # None \/ after # None
       /\ voice' = [voice EXCEPT ![<<gid, uid>>] = after]
       /\ IF voice_targets[gid] = None
          THEN \* line 1176: load_voice_targets_for_guild, line 391
               LET vt == [voice_targets EXCEPT ![gid] = Some({})]
               IN IF ~pool
                  THEN /\ voice_targets' = vt
                       /\ RunHandler(0, tasks, vt, gid, uid, before, after, ok)
                  ELSE /\ voice_targets' = vt
                       /\ tasks' = IF ok
                                   THEN Append(tasks, Task("vsu", "load", gid, Some(uid),
                                                           before, after, None, None,
                                                           SelectTargets(db_targets, gid)))
                                   ELSE tasks
                       /\ last' = [Quiet EXCEPT !.raised = ~ok]
                       /\ UNCHANGED <<voice_sessions, zero_mark, db_sessions>>
          ELSE /\ RunHandler(0, tasks, voice_targets, gid, uid, before, after, ok)
               /\ UNCHANGED voice_targets
       /\ HasBudget /\ events' = events + 1
       /\ UNCHANGED <<database_url, started, pool, now, db_targets>>

\* Line 1170: member.bot.
IsBotNever(uid) == FALSE
IsBot(uid) == uid \in BotIds

\* A notification about a bot: line 1170 returns, whatever channels the
\* notification names.  (Nothing here reads the library's cache of a bot's
\* voice state, so it is not part of the state.)
on_voice_state_update_bot(gid, uid) ==
    /\ started
    /\ IF IsBot(uid)
       THEN /\ last' = [Quiet EXCEPT !.ev = "bot"]
            /\ UNCHANGED <<voice_sessions, zero_mark, voice_targets, db_sessions, tasks>>
       ELSE /\ voice_targets[gid] # None
            /\ \E before \in Opt(ChannelIds), after \in Opt(ChannelIds) :
                  /\ before # None \/ after # None
                  /\ RunHandler(0, tasks, voice_targets, gid, uid, before, after, TRUE)
            /\ UNCHANGED voice_targets
    /\ HasBudget /\ events' = events + 1
    /\ UNCHANGED <<database_url, started, pool, now, voice, db_targets>>

\* Line 396, then the caller goes on: the handler from line 1177, on_ready
\* to its end.
load_resume(i, ok) ==
    /\ i \in 1..Len(tasks)
    /\ tasks[i].pc = "load"
    /\ LET t == tasks[i]
           vt == [voice_targets EXCEPT ![t.gid] = Some(t.rows)]
           ts == Rebind(tasks, t.gid)
       IN /\ voice_targets' = vt
          /\ IF t.kind = "vsu"
             THEN RunHandler(i, ts, vt, t.gid, The(t.uid), t.before, t.after, ok)
             ELSE /\ ok
                  /\ tasks' = Remove(ts, i)
                  /\ last' = Quiet
                  /\ UNCHANGED <<voice_sessions, zero_mark, db_sessions>>
    /\ UNCHANGED <<database_url, started, pool, now, voice, db_targets, events>>

\* save_voice_session returns; lines 1189-1194.
save_resume(i) ==
    /\ i \in 1..Len(tasks)
    /\ tasks[i].pc = "save"
    /\ LET t == tasks[i]
           o == OpenStep(voice_sessions, zero_mark, TargetsOf(t), t.gid, The(t.uid), t.after,
                         utcnow)
       IN /\ voice_sessions' = o.vs
          /\ zero_mark' = o.zm
          /\ last' = [Quiet EXCEPT !.open = o.key,
                                  !.ostart = IF o.key = None THEN None
                                             ELSE DictGet(voice_sessions, The(o.key)),
                                  !.oz = o.key # None /\ The(o.key) \in zero_mark]
    /\ tasks' = Remove(tasks, i)
    /\ UNCHANGED <<database_url, started, pool, now, voice, voice_targets, db_targets,
                   db_sessions, events>>

\* on_ready (lines 1198-1205) for the guild: load_voice_targets_for_guild up
\* to its await; a failure is logged by line 1205.
on_ready(gid, ok) ==
    /\ started
    /\ voice_targets' = [voice_targets EXCEPT ![gid] = Some({})]
    /\ IF ~pool
       THEN ok /\ tasks' = Rebind(tasks, gid)
       ELSE tasks' = IF ok
                        THEN Append(Rebind(tasks, gid),
                                    Task("on_ready", "load", gid, None, None, None, None, None,
                                         SelectTargets(db_targets, gid)))
                        ELSE Rebind(tasks, gid)
    /\ last' = Quiet
    /\ HasBudget /\ events' = events + 1
    /\ UNCHANGED <<database_url, started, pool, now, voice, voice_sessions, zero_mark,
                   db_targets, db_sessions>>

vt_set_voice_CacheOnly(gid, cid, ok) ==
    /\ started
    /\ IF ~pool
       THEN /\ ok /\ UNCHANGED db_targets
            /\ tasks' = Append(tasks, Task("set_voice", "ins", gid, None, None, None,
                                           Some(cid), None, {}))
       ELSE /\ db_targets' = IF ok THEN db_targets \cup {<<gid, cid>>} ELSE db_targets
            /\ tasks' = IF ok
                        THEN Append(tasks, Task("set_voice", "ins", gid, None, None, None,
                                                Some(cid), None, {}))
                        ELSE tasks
    /\ last' = Quiet
    /\ HasBudget /\ events' = events + 1
    /\ UNCHANGED <<database_url, started, pool, now, voice, voice_sessions, zero_mark,
                   voice_targets, db_sessions>>
\* /vt set-voice (lines 491-498) into add_voice_target_channel, up to the
\* await of the INSERT ... ON CONFLICT DO NOTHING of line 384.
vt_set_voice(gid, cid, ok) ==
    /\ started
    /\ IF ~pool
       THEN ok /\ UNCHANGED <<tasks, db_targets>>
       ELSE /\ db_targets' = IF ok THEN db_targets \cup {<<gid, cid>>} ELSE db_targets
            /\ tasks' = IF ok
                        THEN Append(tasks, Task("set_voice", "ins", gid, None, None, None,
                                                Some(cid), None, {}))
                        ELSE tasks
    /\ last' = Quiet
    /\ HasBudget /\ events' = events + 1
    /\ UNCHANGED <<database_url, started, pool, now, voice, voice_sessions, zero_mark,
                   voice_targets, db_sessions>>

\* Line 388: voice_targets.setdefault(gid, set()).add(cid), in place.
AddTargetToggle(vt, gid, cid) ==
    LET old == IF vt[gid] = None THEN {} ELSE The(vt[gid])
    IN [vt EXCEPT ![gid] = Some(IF cid \in old THEN old \ {cid} ELSE old \cup {cid})]
AddTarget(vt, gid, cid) ==
    LET old == IF vt[gid] = None THEN {} ELSE The(vt[gid])
    IN [vt EXCEPT ![gid] = Some(old \cup {cid})]

\* add_voice_target_channel resumes after the INSERT: line 388.
add_resume(i) ==
    /\ i \in 1..Len(tasks)
    /\ tasks[i].pc = "ins"
    /\ LET t == tasks[i]
       IN /\ voice_targets' = AddTarget(voice_targets, t.gid, The(t.cid))
          /\ last' = [Quiet EXCEPT !.cmd = "register", !.zone = Some(<<t.gid, The(t.cid)>>),
                                   !.kz = /\ voice_targets[t.gid] # None
                                          /\ The(t.cid) \in The(voice_targets[t.gid])]
    /\ tasks' = Remove(tasks, i)
    /\ UNCHANGED <<database_url, started, pool, now, voice, voice_sessions, zero_mark,
                   db_targets, db_sessions, events>>

\* /vt zero, lines 505-514 (one run between two awaits).
ZeroSessionsAsFound(vs, key, t) == vs
ZeroSessions(vs, key, t) == IF HasKey(vs, key) THEN vs ELSE DictSet(vs, key, t)

vt_zero(gid, uid) ==
    LET ch == voice[<<gid, uid>>]
        tg == IF voice_targets[gid] = None THEN {} ELSE The(voice_targets[gid])
    IN /\ started
       /\ IF ch # None /\ The(ch) \in tg
          THEN LET key == <<gid, The(ch), uid>>
               IN /\ voice_sessions' = ZeroSessions(voice_sessions, key, utcnow)
                  /\ zero_mark' = zero_mark \cup {key}
                  /\ last' = [Quiet EXCEPT !.cmd = "zero", !.key = Some(key),
                                           !.kstart = DictGet(voice_sessions, key),
                                           !.kz = key \in zero_mark]
          ELSE /\ last' = Quiet
               /\ UNCHANGED <<voice_sessions, zero_mark>>
       /\ HasBudget /\ events' = events + 1
       /\ UNCHANGED <<database_url, started, pool, now, voice, voice_targets, db_targets,
                      db_sessions, tasks>>

\* /vt unzero, lines 522-529.
UnzeroMarksToggle(zm, key) == IF key \in zm THEN zm \ {key} ELSE zm \cup {key}
UnzeroMarks(zm, key) == zm \ {key}

vt_unzero(gid, uid) ==
    LET ch == voice[<<gid, uid>>]
    IN /\ started
       /\ IF ch # None
          THEN LET key == <<gid, The(ch), uid>>
               IN /\ zero_mark' = UnzeroMarks(zero_mark, key)
                  /\ last' = [Quiet EXCEPT !.cmd = "unzero", !.key = Some(key),
                                           !.kstart = DictGet(voice_sessions, key),
                                           !.kz = key \in zero_mark]
          ELSE /\ last' = Quiet
               /\ UNCHANGED zero_mark
       /\ HasBudget /\ events' = events + 1
       /\ UNCHANGED <<database_url, started, pool, now, voice, voice_sessions, voice_targets,
                      db_targets, db_sessions, tasks>>

\* The event loop once setup_hook has run.
Running ==
    \/ Tick
    \/ \E g \in GuildIds, u \in MemberIds, a \in Opt(ChannelIds), ok \in BOOLEAN :
          on_voice_state_update(g, u, a, ok)
    \/ \E g \in GuildIds, u \in BotIds : on_voice_state_update_bot(g, u)
    \/ \E i \in 1..MaxEvents, ok \in BOOLEAN : load_resume(i, ok)
    \/ \E i \in 1..MaxEvents : save_resume(i)
    \/ \E g \in GuildIds, ok \in BOOLEAN : on_ready(g, ok)
    \/ \E g \in GuildIds, c \in ChannelIds, ok \in BOOLEAN : vt_set_voice(g, c, ok)
    \/ \E i \in 1..MaxEvents : add_resume(i)
    \/ \E g \in GuildIds, u \in MemberIds : vt_zero(g, u)
    \/ \E g \in GuildIds, u \in MemberIds : vt_unzero(g, u)

Next ==
    \/ client_run
    \/ setup_hook
    \/ Running

Spec == Init /\ [][Next]_vars

\* A registry that holds a session for a zone its member is not in: member 1
\* sits in channel 1, whose session opened at 1 after an earlier one was
\* persisted as (0, 1), and has a session from 1 in channel 2 as well.
StaleRegistry ==
    /\ database_url = TRUE /\ started = TRUE /\ pool = TRUE
    /\ now = 1
    /\ voice = [m \in GuildIds \X MemberIds |-> Some(1)]
    /\ voice_sessions = {<<<<1, 1, 1>>, 1>>, <<<<1, 2, 1>>, 1>>}
    /\ zero_mark = {}
    /\ voice_targets = [g \in GuildIds |-> Some({1, 2})]
    /\ db_targets = {<<1, 1>>, <<1, 2>>}
    /\ db_sessions = <<Row(1, 1, 1, 0, 1)>>
    /\ tasks = <<>>

\* The runs that go on from StaleRegistry, which Spec reaches when a move
\* 1 -> 2 is suspended in save_voice_session while the move back 2 -> 1 is
\* handled; the count of delivered events starts again.
InitStale ==
    /\ StaleRegistry
    /\ events = 0
    /\ last = [NoOp EXCEPT !.rows = 1]

SpecStale == InitStale /\ [][Running]_vars

\* ------------------------------------------------------------ the claims
LastRow == db_sessions[Len(db_sessions)]
KeyRow(k, s, e) == Row(k[1], k[2], k[3], s, e)
Closed == last.close # None /\ last.cstart # None
WriteFailed == last.save \in {"fail", "assert"}

\* C1: at most one OpenSession exists per (guild, channel, member) key in
\* every reachable state.
C1_AtMostOneOpenSession ==
    \A k \in Keys : Cardinality({e \in voice_sessions : e[1] = k}) <= 1

\* An open step has acted on a key that already had an OpenSession.
C1_Witness ==
    /\ last.open # None /\ last.ostart # None
    /\ HasKey(voice_sessions, The(last.open))

\* C2: an open on a key that already has an OpenSession leaves its recorded
\* start as it was; a close of a key persists one interval, which starts at
\* the recorded start, and no other step persists any.
C2_OpenKeepsStart ==
    /\ (last.open # None /\ last.ostart # None) =>
           DictGet(voice_sessions, The(last.open)) = last.ostart
    /\ Len(db_sessions) = last.rows + (IF last.save = "ok" THEN 1 ELSE 0)
    /\ last.save = "ok" =>
           /\ Closed
           /\ LastRow.start_utc = The(last.cstart)
           /\ <<LastRow.guild_id, LastRow.channel_id, LastRow.user_id>> = The(last.close)

\* A duplicate open has acted on a session opened at an earlier instant.
C2_Witness ==
    /\ last.open # None /\ last.ostart # None
    /\ The(last.ostart) < now

\* C3: a close at t2 of a key whose OpenSession started at t1 < t2, not
\* zero-marked, whose write does not fail, persists exactly one interval
\* (t1, t2) for the key and leaves no OpenSession for it.
C3_CloseWritesInterval ==
    (Closed /\ ~last.cz /\ now > The(last.cstart) /\ ~WriteFailed) =>
        /\ last.save = "ok"
        /\ Len(db_sessions) = last.rows + 1
        /\ LastRow = KeyRow(The(last.close), The(last.cstart), now)
        /\ ~HasKey(voice_sessions, The(last.close))

C3_Witness ==
    Closed /\ ~last.cz /\ now > The(last.cstart) /\ ~WriteFailed

\* C4: a close with end <= start of a key that is not zero-marked persists
\* nothing and raises nothing, and the session is removed (a join of the same
\* notification may open a new one).
C4_NonPositiveDiscarded ==
    (Closed /\ ~last.cz /\ now <= The(last.cstart)) =>
        /\ last.save = "discard"
        /\ Len(db_sessions) = last.rows
        /\ ~last.raised
        /\ HasKey(voice_sessions, The(last.close)) =>
               (last.open = last.close /\ last.ostart = None)

C4_Witness ==
    Closed /\ ~last.cz /\ now <= The(last.cstart)

\* C5: a close of a key that is zero-marked at the close, whose write does
\* not fail, persists exactly one interval with end = start = the recorded
\* start, whatever the time elapsed.
C5_ZeroClosePersistsZero ==
    (Closed /\ last.cz /\ ~WriteFailed) =>
        /\ last.save = "ok"
        /\ Len(db_sessions) = last.rows + 1
        /\ LastRow = KeyRow(The(last.close), The(last.cstart), The(last.cstart))

\* A zero-marked session is closed after time has passed.
C5_Witness ==
    Closed /\ last.cz /\ ~WriteFailed /\ now > The(last.cstart)

\* C6: every persisted interval has end >= start, and a step persists one
\* with end = start exactly when it is a zero-marked close.
C6_IntervalsValid ==
    /\ \A i \in 1..Len(db_sessions) : db_sessions[i].end_utc >= db_sessions[i].start_utc
    /\ Len(db_sessions) > last.rows =>
           /\ Closed
           /\ (LastRow.end_utc = LastRow.start_utc) <=> last.cz

\* A close that is not zero-marked has persisted an interval of positive length.
C6_Witness ==
    /\ Len(db_sessions) > last.rows /\ ~last.cz
    /\ LastRow.end_utc > LastRow.start_utc

\* C7: an open on a key that already has an OpenSession changes neither its
\* recorded start nor its zero-mark.
C7_DuplicateOpenIsNoOp ==
    (last.open # None /\ last.ostart # None) =>
        /\ DictGet(voice_sessions, The(last.open)) = last.ostart
        /\ (The(last.open) \in zero_mark) <=> last.oz

\* A duplicate open has acted on a session that carried the zero-mark.
C7_Witness ==
    /\ last.open # None /\ last.ostart # None /\ last.oz
    /\ HasKey(voice_sessions, The(last.open))

\* C8: a close on a key with no OpenSession persists no interval, raises no
\* error and leaves the session map and the zero-mark set as they were (the
\* open step of the same notification acts on its own key only).
C8_CloseAbsentIsNoOp ==
    [][(last'.close # None /\ last'.cstart = None) =>
          /\ db_sessions' = db_sessions
          /\ ~last'.raised
          /\ \A k \in Keys :
                Some(k) # last'.open =>
                    /\ DictGet(voice_sessions', k) = DictGet(voice_sessions, k)
                    /\ (k \in zero_mark') <=> (k \in zero_mark)]_vars

\* A leave from a monitored channel found no OpenSession.
C8_Witness ==
    /\ last.close # None /\ last.cstart = None /\ last.open = None
    /\ ~last.raised

\* C9: markZero(k) on a monitored zone creates an OpenSession at the current
\* instant if there is none and keeps the recorded start if there is one, and
\* sets the flag; the flag then stays until k is closed or unmarked, and a
\* close of a flagged key persists a zero-duration interval.
C9_MarkZeroHoldsUntilClose ==
    [][/\ last'.cmd = "zero" =>
             /\ The(last'.key) \in zero_mark'
             /\ DictGet(voice_sessions', The(last'.key)) =
                    (IF last'.kstart = None THEN Some(now) ELSE last'.kstart)
       /\ \A k \in Keys :
             (k \in zero_mark /\ k \notin zero_mark') =>
                 \/ last'.close = Some(k)
                 \/ last'.cmd = "unzero" /\ last'.key = Some(k)
       /\ (last'.close # None /\ last'.cstart # None /\ last'.cz /\ last'.save = "ok") =>
             db_sessions'[Len(db_sessions')].end_utc = The(last'.cstart)]_vars

\* markZero has synthesized a session for a key that had none.
C9_Witness ==
    /\ last.cmd = "zero" /\ last.kstart = None
    /\ The(last.key) \in zero_mark /\ HasKey(voice_sessions, The(last.key))

\* C10: unmarkZero(k) removes k from the zero-mark set and nothing else, is a
\* no-op when k is not flagged, and changes no OpenSession and no persisted
\* interval; a close of an unflagged key after time has passed, whose write
\* does not fail, persists the interval (start, end).
C10_UnmarkZero ==
    [][/\ last'.cmd = "unzero" =>
             /\ zero_mark' = zero_mark \ {The(last'.key)}
             /\ ~last'.kz => zero_mark' = zero_mark
             /\ voice_sessions' = voice_sessions
             /\ db_sessions' = db_sessions
       /\ (last'.close # None /\ last'.cstart # None /\ ~last'.cz
           /\ now > The(last'.cstart) /\ last'.save \notin {"fail", "assert"}) =>
             /\ Len(db_sessions') = Len(db_sessions) + 1
             /\ db_sessions'[Len(db_sessions')] =
                    KeyRow(The(last'.close), The(last'.cstart), now)]_vars

\* unmarkZero has cleared the flag of an OpenSession.
C10_Witness ==
    /\ last.cmd = "unzero" /\ last.kz /\ last.kstart # None
    /\ The(last.key) \notin zero_mark
    /\ DictGet(voice_sessions, The(last.key)) = last.kstart

\* The rows persisted for a key.
RowsOf(tbl, k) ==
    {i \in 1..Len(tbl) : <<tbl[i].guild_id, tbl[i].channel_id, tbl[i].user_id>> = k}

\* C11: no step creates, removes or changes an OpenSession or its zero-mark,
\* or persists an interval, for a key whose zone is not registered for its
\* guild; a notification filters both its zones by the guild's in-memory set,
\* and one that has neither zone in it leaves the registry and the store as
\* they were.
C11_OnlyMonitoredZones ==
    [][/\ \A k \in Keys :
             <<k[1], k[2]>> \notin db_targets' =>
                 /\ DictGet(voice_sessions', k) = DictGet(voice_sessions, k)
                 /\ (k \in zero_mark') <=> (k \in zero_mark)
                 /\ RowsOf(db_sessions', k) = {}
       /\ \A g \in GuildIds, u \in MemberIds :
             (last'.ev = "vsu" /\ voice'[<<g, u>>] # voice[<<g, u>>]
              /\ voice_targets[g] # None) =>
                 LET b == voice[<<g, u>>]
                     a == voice'[<<g, u>>]
                     tg == The(voice_targets[g])
                 IN /\ (b = None \/ The(b) \notin tg) => last'.close = None
                    /\ (a = None \/ The(a) \notin tg) => last'.open = None
       /\ (last'.ev = "vsu" /\ last'.close = None /\ last'.open = None) =>
             /\ voice_sessions' = voice_sessions
             /\ zero_mark' = zero_mark
             /\ db_sessions' = db_sessions]_vars

\* A notification has put a member into a zone that is neither registered nor
\* in the guild's non-empty in-memory set, and acted on no key.
C11_Witness ==
    /\ last.ev = "vsu" /\ last.close = None /\ last.open = None
    /\ \E g \in GuildIds, u \in MemberIds :
          /\ voice[<<g, u>>] # None /\ voice_targets[g] # None
          /\ The(voice_targets[g]) # {}
          /\ The(voice[<<g, u>>]) \notin The(voice_targets[g])
          /\ <<g, The(voice[<<g, u>>])>> \notin db_targets

\* C12: a notification about a bot changes nothing: the session map, the
\* zero-mark set, the in-memory monitored sets, the registered zones and the
\* persisted intervals are as they were.
C12_BotChangesNothing ==
    [][(last'.ev = "bot" \/ \E g \in GuildIds, u \in BotIds : on_voice_state_update_bot(g, u)) =>
          UNCHANGED <<voice_sessions, zero_mark, voice_targets, db_targets, db_sessions>>]_vars

\* A bot's notification has been dropped while a session was open.
C12_Witness ==
    /\ last.ev = "bot"
    /\ voice_sessions # {}
    /\ \E g \in GuildIds : voice_targets[g] # None /\ The(voice_targets[g]) # {}

\* C13: in a move between two monitored zones the close of the zone left
\* comes first and the open of the zone joined second: when the interval of
\* A is written the open step has not run and A has no session; after the
\* open step B has a session, and its start is not earlier than the end of
\* any interval persisted for the member, A's among them.
C13_MoveClosesThenOpens ==
    /\ last.save = "ok" =>
           /\ last.open = None
           /\ ~HasKey(voice_sessions, The(last.close))
    /\ (last.ev = "vsu" /\ last.close # None /\ last.open # None
        /\ last.close # last.open) =>
           /\ ~HasKey(voice_sessions, The(last.close))
           /\ HasKey(voice_sessions, The(last.open))
    /\ (last.ev = "none" /\ last.open # None) =>
           LET k == The(last.open)
           IN /\ HasKey(voice_sessions, k)
              /\ \A i \in 1..Len(db_sessions) :
                    (db_sessions[i].guild_id = k[1] /\ db_sessions[i].user_id = k[3]) =>
                        \A t \in DictGet(voice_sessions, k) : t >= db_sessions[i].end_utc

\* The open step of a move has found a session of the zone joined that is
\* older than the end of the interval just persisted for the zone left.
C13_Witness ==
    /\ last.ev = "none" /\ last.open # None /\ last.ostart # None
    /\ Len(db_sessions) > 0
    /\ LastRow.channel_id # The(last.open)[2]
    /\ The(last.ostart) < LastRow.end_utc

\* C14: between the close step and the open step of a notification N (N is
\* suspended in save_voice_session) no other notification acts on the key of
\* the zone N joins.
C14_NoYieldBetweenCloseAndOpen ==
    [][\A i \in 1..Len(tasks) :
          (tasks[i].pc = "save" /\ tasks[i].after # None) =>
              LET k == <<tasks[i].gid, The(tasks[i].after), The(tasks[i].uid)>>
              IN ~(last'.ev = "vsu" /\ (last'.close = Some(k) \/ last'.open = Some(k)))]_vars

\* The open step of a move 1 -> 2 has run after the move back 2 -> 1 was
\* handled: the member is in channel 1 and has a session in channel 2.
C14_Witness ==
    StaleRegistry /\ last.ev = "none" /\ last.open = Some(<<1, 2, 1>>)

\* C15: when the write of a closed session fails, the session and its
\* zero-mark are gone from the registry, no interval is persisted, and the
\* exception leaves the handler.
C15_WriteFailureLosesSession ==
    last.save = "fail" =>
        /\ Closed
        /\ ~HasKey(voice_sessions, The(last.close))
        /\ The(last.close) \notin zero_mark
        /\ last.open = None
        /\ db_sessions = SubSeq(db_sessions, 1, last.rows)
        /\ last.raised

\* The write of a zero-marked session has failed.
C15_Witness ==
    last.save = "fail" /\ last.cz /\ now > The(last.cstart)

\* C16: a failure while a notification is processed does not keep the next
\* notification from being processed normally: when the step before raised,
\* nothing is in flight and the guild's set has been loaded, a member who
\* joins a registered zone gets an OpenSession.
C16_IngestSurvivesFailure ==
    [][\A g \in GuildIds, u \in MemberIds :
          (/\ last.raised /\ tasks = <<>>
           /\ voice_targets[g] # None
           /\ voice[<<g, u>>] = None /\ voice'[<<g, u>>] # None
           /\ <<g, The(voice'[<<g, u>>])>> \in db_targets) =>
              HasKey(voice_sessions', <<g, The(voice'[<<g, u>>]), u>>)]_vars

\* A join to a registered zone has been handled and has opened nothing: the
\* guild's in-memory set is empty although nothing is in flight.
C16_Witness ==
    /\ last.ev = "vsu" /\ last.close = None /\ last.open = None
    /\ tasks = <<>> /\ pool
    /\ \E g \in GuildIds, u \in MemberIds :
          /\ voice[<<g, u>>] # None
          /\ <<g, The(voice[<<g, u>>])>> \in db_targets
          /\ voice_targets[g] = Some({})
          /\ ~HasKey(voice_sessions, <<g, The(voice[<<g, u>>]), u>>)

\* C17: while there is no connection pool the tracker holds no OpenSession
\* and no zero-mark, no zone is in an in-memory set, and save_voice_session
\* is never called, so no session is taken and then dropped.
C17_NoPoolNoSessions ==
    ~pool =>
        /\ voice_sessions = {} /\ zero_mark = {}
        /\ \A g \in GuildIds : voice_targets[g] \in {None, Some({})}
        /\ last.save = "none" /\ last.cmd # "zero"
        /\ db_sessions = <<>>

\* Without a pool a notification has been handled for a member who is in a
\* registered zone.
C17_Witness ==
    /\ started /\ ~pool /\ last.ev = "vsu"
    /\ \E g \in GuildIds, u \in MemberIds :
          voice[<<g, u>>] # None /\ <<g, The(voice[<<g, u>>])>> \in db_targets

\* C18: the persisted intervals are append-only: every step leaves the rows
\* it found as they were and in their place, and adds rows only at the end.
C18_AppendOnly ==
    [][/\ Len(db_sessions') >= Len(db_sessions)
       /\ SubSeq(db_sessions', 1, Len(db_sessions)) = db_sessions]_vars

\* A second interval has been persisted for a key that already had one.
C18_Witness ==
    /\ Len(db_sessions) >= 2
    /\ SameKey(db_sessions[1], db_sessions[2])
    /\ db_sessions[1] # db_sessions[2]

\* The guild's in-memory set, empty while the guild has no entry.
Cache(vt, g) == IF vt[g] = None THEN {} ELSE The(vt[g])

\* C19: register(g, z) is idempotent: its INSERT leaves the registered zones
\* with z added, and its completion leaves the in-memory set of g with z
\* added and nothing else changed; on a zone already registered and already
\* in the set neither changes.  After it completes z is registered and in the
\* in-memory set.
C19_RegisterIdempotent ==
    [][/\ (Len(tasks') = Len(tasks) + 1 /\ tasks'[Len(tasks')].pc = "ins") =>
             LET t == tasks'[Len(tasks')]
             IN db_targets' = db_targets \cup {<<t.gid, The(t.cid)>>}
       /\ last'.cmd = "register" =>
             LET z == The(last'.zone)
             IN /\ z \in db_targets'
                /\ voice_targets'[z[1]] # None
                /\ \A g \in GuildIds :
                      Cache(voice_targets', g) =
                          IF g = z[1] THEN Cache(voice_targets, g) \cup {z[2]}
                          ELSE Cache(voice_targets, g)
                /\ last'.kz => voice_targets' = voice_targets
                /\ db_targets' = db_targets]_vars

\* A register has completed on a zone that was registered and in the
\* in-memory set already.
C19_Witness ==
    /\ last.cmd = "register" /\ last.kz
    /\ The(last.zone) \in db_targets
    /\ The(last.zone)[2] \in Cache(voice_targets, The(last.zone)[1])

\* C20: once a zone is in the in-memory set of a guild it stays there: no
\* step takes a zone out of a guild's in-memory set.
C20_CacheOnlyGrows ==
    [][\A g \in GuildIds : Cache(voice_targets, g) \subseteq Cache(voice_targets', g)]_vars

\* A member has an OpenSession in a zone that is no longer in the in-memory
\* set of its guild.
C20_Witness ==
    \E e \in voice_sessions : e[1][2] \notin Cache(voice_targets, e[1][1])

\* ------------------------------------------------ dates of the /vt queries
\* A date string is the sequence of its characters.  The strings the queries
\* below are given lie between the years 1948 and 2024, where an instant, in
\* seconds since 1970-01-01T00:00Z, fits the integers of the checker.
Digits == <<"0", "1", "2", "3", "4", "5", "6", "7", "8", "9">>
IsDigit(c) == \E i \in 1..10 : Digits[i] = c
DigitVal(c) == (CHOOSE i \in 1..10 : Digits[i] = c) - 1
AllDigits(s) == \A i \in 1..Len(s) : IsDigit(s[i])

\* The number a string of digits writes.
NumVal(s) ==
    LET val[i \in 0..Len(s)] == IF i = 0 THEN 0 ELSE 10 * val[i - 1] + DigitVal(s[i])
    IN val[Len(s)]

\* The fields %Y, %m and %d of strptime: \d\d\d\d, 1[0-2]|0[1-9]|[1-9] and
\* 3[01]|[12]\d|0[1-9]|[1-9]| [1-9].
YearField(f) == Len(f) = 4 /\ AllDigits(f)
MonthField(f) == Len(f) \in {1, 2} /\ AllDigits(f) /\ f # <<"0">> /\ NumVal(f) \in 1..12
DayField(f) ==
    \/ Len(f) \in {1, 2} /\ AllDigits(f) /\ f # <<"0">> /\ NumVal(f) \in 1..31
    \/ Len(f) = 2 /\ f[1] = " " /\ IsDigit(f[2]) /\ f[2] # "0"
DayVal(f) == IF f[1] = " " THEN DigitVal(f[2]) ELSE NumVal(f)

\* The places j of the second "-" with which s matches %Y-%m-%d as a whole.
FormatSplits(s) ==
    {j \in 7..(Len(s) - 1) :
        /\ YearField(SubSeq(s, 1, 4)) /\ s[5] = "-" /\ s[j] = "-"
        /\ MonthField(SubSeq(s, 6, j - 1))
        /\ DayField(SubSeq(s, j + 1, Len(s)))}

\* datetime.date: the days of a month, and a date as its day number counted
\* from 1970-01-01 (date.toordinal() - 719163).
IsLeap(y) == y % 4 = 0 /\ (y % 100 # 0 \/ y % 400 = 0)
DaysInMonth(y, m) ==
    IF m = 2 THEN (IF IsLeap(y) THEN 29 ELSE 28)
    ELSE IF m \in {4, 6, 9, 11} THEN 30 ELSE 31
DaysBeforeYear(y) == 365 * (y - 1) + (y - 1) \div 4 - (y - 1) \div 100 + (y - 1) \div 400
DaysBeforeMonth(y, m) ==
    LET days[k \in 1..12] == IF k = 1 THEN 0 ELSE days[k - 1] + DaysInMonth(y, k - 1)
    IN days[m]
Date(y, m, d) == DaysBeforeYear(y) + DaysBeforeMonth(y, m) + d - (DaysBeforeYear(1970) + 1)

\* The date strptime makes of the fields it has read: it raises for the year
\* 0 and for a day the month does not have.
MakeDateClamped(y, m, d) ==
    IF y < 1 THEN None
    ELSE Some(Date(y, m, IF d > DaysInMonth(y, m) THEN DaysInMonth(y, m) ELSE d))
MakeDate(y, m, d) == IF y < 1 \/ d > DaysInMonth(y, m) THEN None ELSE Some(Date(y, m, d))

ParseAt(s, j) ==
    MakeDate(NumVal(SubSeq(s, 1, 4)), NumVal(SubSeq(s, 6, j - 1)),
             DayVal(SubSeq(s, j + 1, Len(s))))
ParseSplit(s, J) == IF J = {} THEN None ELSE ParseAt(s, The(J))

\* parse_ymd (lines 309-316): None for None, for the empty string and for a
\* string strptime raises on; the date otherwise.
parse_ymd(s) ==
    IF s = None \/ s = Some(<<>>) THEN None ELSE ParseSplit(The(s), FormatSplits(The(s)))

\* JST = ZoneInfo("Asia/Tokyo") (line 73): the offset from UTC, in seconds,
\* that the zone gives the local midnight that begins day d.  The zone had
\* summer time (UTC+10) in 1948-1951; a midnight on the day summer time
\* begins is read with the offset before the change (fold = 0), and the one on
\* the day it ends with the summer offset.
DayInSummerTime(d) ==
    \/ Date(1948, 5, 2) < d /\ d <= Date(1948, 9, 12)
    \/ Date(1949, 4, 3) < d /\ d <= Date(1949, 9, 11)
    \/ Date(1950, 5, 7) < d /\ d <= Date(1950, 9, 10)
    \/ Date(1951, 5, 6) < d /\ d <= Date(1951, 9, 9)
JST(d) == IF DayInSummerTime(d) THEN 10 * 3600 ELSE 9 * 3600

\* jst_day_start_utc and jst_day_end_exclusive_utc (lines 319-325).
jst_day_start_utc(d) == d * 86400 - JST(d)
jst_day_end_exclusive_utc(d) == jst_day_start_utc(d + 1)

\* build_utc_range (lines 413-418), from the dates parse_ymd returns.
RangeOf(d_from, d_to) ==
    [start_utc |-> IF d_from # None THEN Some(jst_day_start_utc(The(d_from))) ELSE None,
     end_utc |-> IF d_to # None THEN Some(jst_day_end_exclusive_utc(The(d_to))) ELSE None]
build_utc_range(from_str, to_str) == RangeOf(parse_ymd(from_str), parse_ymd(to_str))

\* ------------------------------------------------- statements of the queries
\* A WHERE clause is the sequence of its comparisons "col op $ph"; the
\* arguments of a statement are tagged with their Python type.  The instants
\* of the table are whole seconds.
Pred(col, op, ph) == [col |-> col, op |-> op, ph |-> ph]
IntArg(v) == [t |-> "int", v |-> v]
TsArg(v) == [t |-> "ts", v |-> v]
ColType(col) == IF col \in {"start_utc", "end_utc"} THEN "ts" ELSE "int"

\* overlap_cond_sql (lines 421-430), with the placeholders $X and $Y.
overlap_cond_sql_closed(start_utc, end_utc) ==
    [conds |-> (IF start_utc # None THEN <<Pred("end_utc", ">=", "X")>> ELSE <<>>)
               \o (IF end_utc # None THEN <<Pred("start_utc", "<=", "Y")>> ELSE <<>>),
     params |-> (IF start_utc # None THEN <<TsArg(The(start_utc))>> ELSE <<>>)
                \o (IF end_utc # None THEN <<TsArg(The(end_utc))>> ELSE <<>>)]

overlap_cond_sql(start_utc, end_utc) ==
    [conds |-> (IF start_utc # None THEN <<Pred("end_utc", ">", "X")>> ELSE <<>>)
               \o (IF end_utc # None THEN <<Pred("start_utc", "<", "Y")>> ELSE <<>>),
     params |-> (IF start_utc # None THEN <<TsArg(The(start_utc))>> ELSE <<>>)
                \o (IF end_utc # None THEN <<TsArg(The(end_utc))>> ELSE <<>>)]

\* cond_sql.replace("$X", f"${len(params)+1}").replace("$Y", f"${len(params)+2}")
\* (lines 438, 454, 472, 615, 653), n being len(params) before the extend.
Numbered(conds, n) ==
    [i \in 1..Len(conds) |->
        Pred(conds[i].col, conds[i].op, IF conds[i].ph = "X" THEN n + 1 ELSE n + 2)]

\* The statement a query builds from its base comparisons and arguments
\* (lines 433-440, and the same lines of the other queries).
Extended(base, params, oc) ==
    [where |-> base \o Numbered(oc.conds, Len(params)), params |-> params \o oc.params]
OverlapOf(r) == overlap_cond_sql(r.start_utc, r.end_utc)
RangeQuery(base, params, from_str, to_str) ==
    Extended(base, params, OverlapOf(build_utc_range(from_str, to_str)))

\* conn.fetch / conn.fetchval: the server prepares the statement with one
\* parameter for each of $1..$n, n the largest placeholder of the text, and
\* gives each the type of the place it stands in; it rejects a text that
\* leaves the type of one of them open ($k not in the text) or gives it two
\* types, and the driver rejects a call whose arguments are not n values of
\* those types.
Placeholders(where, limit) ==
    {<<where[i].ph, ColType(where[i].col)>> : i \in DOMAIN where}
        \cup {<<p, "int">> : p \in limit}
WellTyped(refs, params) ==
    /\ {r[1] : r \in refs} = 1..Len(params)
    /\ \A r \in refs : params[r[1]].t = r[2]
Accepts(where, limit, params) == WellTyped(Placeholders(where, limit), params)

Compare(x, op, v) ==
    CASE op = "=" -> x = v
      [] op = ">" -> x > v
      [] op = "<" -> x < v
      [] op = ">=" -> x >= v
      [] op = "<=" -> x <= v
Matches(row, p, params) == Compare(row[p.col], p.op, params[p.ph].v)

\* The places in the table of the rows the WHERE clause selects.
Selected(tbl, where, params) ==
    {i \in 1..Len(tbl) : \A k \in DOMAIN where : Matches(tbl[i], where[k], params)}

\* EXTRACT(EPOCH FROM (end_utc - start_utc)), and its SUM over rows.
EpochClippedToDay(row) ==
    IF row.end_utc <= 1704121200 \/ row.start_utc >= 1704207600 THEN 0
    ELSE (IF row.end_utc < 1704207600 THEN row.end_utc ELSE 1704207600)
         - (IF row.start_utc > 1704121200 THEN row.start_utc ELSE 1704121200)
Epoch(row) == row.end_utc - row.start_utc
SumEpochCount(tbl, I) == Cardinality(I)
SumEpoch(tbl, I) ==
    LET sum[k \in 0..Len(tbl)] ==
            IF k = 0 THEN 0
            ELSE sum[k - 1] + (IF k \in I THEN Epoch(tbl[k]) ELSE 0)
    IN sum[Len(tbl)]

Failed == [raised |-> TRUE, sec |-> 0, list |-> <<>>]

\* conn.fetchval of the SUM and int(row or 0) (lines 441-443): the SUM over no
\* row is NULL; client.pool.acquire() raises when the pool is None.
FetchSum(tbl, pl, where, params) ==
    IF ~pl \/ ~Accepts(where, None, params) THEN Failed
    ELSE [Failed EXCEPT !.raised = FALSE, !.sec = SumEpoch(tbl, Selected(tbl, where, params))]
FetchSumOf(tbl, pl, q) == FetchSum(tbl, pl, q.where, q.params)

\* total_seconds_user (lines 432-443).
total_seconds_user(tbl, pl, gid, uid, from_str, to_str) ==
    FetchSumOf(tbl, pl, RangeQuery(<<Pred("guild_id", "=", 1), Pred("user_id", "=", 2)>>,
                                   <<IntArg(gid), IntArg(uid)>>, from_str, to_str))

\* GROUP BY col with SUM(...) AS sec over the selected rows: one (id, sec) per
\* value of col among them.
GroupSums(tbl, I, col) ==
    {<<id, SumEpoch(tbl, {i \in I : tbl[i][col] = id})>> : id \in {tbl[i][col] : i \in I}}

\* ORDER BY sec DESC NULLS LAST: the statement names no second sort key, so
\* the server may return groups of equal sec in either order.
OrderedBySecAsc(G) ==
    {s \in [1..Cardinality(G) -> G] :
        \A i, j \in 1..Cardinality(G) : i < j => s[i] # s[j] /\ s[i][2] <= s[j][2]}
OrderedBySecDesc(G) ==
    {s \in [1..Cardinality(G) -> G] :
        \A i, j \in 1..Cardinality(G) : i < j => s[i] # s[j] /\ s[i][2] >= s[j][2]}

\* LIMIT n.
LimitNone(s, n) == s
Limit(s, n) == SubSeq(s, 1, IF Len(s) < n THEN Len(s) ELSE n)

\* conn.fetch of a grouped statement (lines 456-461 and 474-479): the LIMIT
\* is numbered len(params)+1 after the extend, and its value appended.
FetchGroups(tbl, pl, where, limit, params, col) ==
    IF ~pl \/ ~Accepts(where, Some(limit), params) THEN {Failed}
    ELSE {[Failed EXCEPT !.raised = FALSE, !.list = Limit(s, params[limit].v)] :
             s \in OrderedBySecDesc(GroupSums(tbl, Selected(tbl, where, params), col))}
FetchGroupsOf(tbl, pl, q, col, limit) ==
    FetchGroups(tbl, pl, q.where, Len(q.params) + 1, q.params \o <<IntArg(limit)>>, col)

\* total_seconds_per_channel_user (lines 445-461).
total_seconds_per_channel_user(tbl, pl, gid, uid, limit, from_str, to_str) ==
    FetchGroupsOf(tbl, pl,
                  RangeQuery(<<Pred("guild_id", "=", 1), Pred("user_id", "=", 2)>>,
                             <<IntArg(gid), IntArg(uid)>>, from_str, to_str),
                  "channel_id", limit)

\* top_users_between (lines 463-479).
top_users_between(tbl, pl, gid, limit, from_str, to_str) ==
    FetchGroupsOf(tbl, pl,
                  RangeQuery(<<Pred("guild_id", "=", 1)>>, <<IntArg(gid)>>, from_str, to_str),
                  "user_id", limit)

\* A line of the CSV (lines 624-631 and 660-667), without its name and
\* local-time columns: dur = int((e - s).total_seconds()).
CsvRow(row) ==
    [channel_id |-> row.channel_id, user_id |-> row.user_id,
     duration_sec |-> row.end_utc - row.start_utc]

\* ORDER BY start_utc: the orders of the selected places by start, rows of
\* equal start in either order.
OrderedByStart(tbl, I) ==
    {s \in [1..Cardinality(I) -> I] :
        \A i, j \in 1..Cardinality(I) :
            i < j => s[i] # s[j] /\ tbl[s[i]].start_utc <= tbl[s[j]].start_utc}

\* The loop over the fetched rows (lines 624-631 and 660-667).
CsvOfFirst(tbl, s) == [k \in 1..(IF Len(s) > 1 THEN 1 ELSE Len(s)) |-> CsvRow(tbl[s[k]])]
CsvOf(tbl, s) == [k \in 1..Len(s) |-> CsvRow(tbl[s[k]])]

\* The CSVs an export can write (lines 610-631 and 648-667).
FetchRows(tbl, where, params) ==
    IF ~Accepts(where, None, params) THEN {[raised |-> TRUE, csv |-> <<>>]}
    ELSE {[raised |-> FALSE, csv |-> CsvOf(tbl, s)] :
             s \in OrderedByStart(tbl, Selected(tbl, where, params))}
FetchRowsOf(tbl, q) == FetchRows(tbl, q.where, q.params)
Export(tbl, base, params, from_str, to_str) ==
    FetchRowsOf(tbl, RangeQuery(base, params, from_str, to_str))

\* ------------------------------------------------------ the query commands
\* The queries write nothing, so they are run apart from the steps of Spec:
\* over a table of intervals as Spec persists them (end >= start, rows in the
\* order of their ends), one command a run.
MaxRows == 2

\* The window of the date 2024-01-02.
WinS == jst_day_start_utc(Date(2024, 1, 2))
WinE == jst_day_end_exclusive_utc(Date(2024, 1, 2))

\* Intervals that end at WinS, straddle WinS, are empty at WinS (a zero-marked
\* close), straddle WinE, begin at WinE, and one of another guild.
QueryRows ==
    {Row(1, 1, 3, WinS - 3600, WinS),
     Row(1, 1, 1, WinS - 1800, WinS + 1800),
     Row(1, 1, 3, WinS, WinS),
     Row(1, 2, 1, WinE - 1800, WinE + 1800),
     Row(1, 2, 3, WinE, WinE + 3600),
     Row(2, 1, 1, WinS, WinS + 3600)}

QueryTables ==
    {t \in UNION {[1..n -> QueryRows] : n \in 0..MaxRows} :
        \A i, j \in 1..Len(t) : i < j => t[i].end_utc <= t[j].end_utc}

QueryMembers == {1, 3}
Limits == {1, 10}

\* The from_ and to arguments: not given, empty, "2024-01-02", "2024-1-2",
\* "2024-02-30", "2024/01/02" and "1950-05-07".
DateStrings ==
    {None,
     Some(<<>>),
     Some(<<"2", "0", "2", "4", "-", "0", "1", "-", "0", "2">>),
     Some(<<"2", "0", "2", "4", "-", "1", "-", "2">>),
     Some(<<"2", "0", "2", "4", "-", "0", "2", "-", "3", "0">>),
     Some(<<"2", "0", "2", "4", "/", "0", "1", "/", "0", "2">>),
     Some(<<"1", "9", "5", "0", "-", "0", "5", "-", "0", "7">>)}

Asked(cmd, member, limit, from_str, to_str) ==
    [Quiet EXCEPT !.cmd = cmd, !.member = member, !.limit = limit,
                  !.from_ = from_str, !.to = to_str]

Answer(reply) ==
    /\ events' = 1
    /\ last' = reply
    /\ UNCHANGED <<database_url, started, pool, now, voice, voice_sessions, zero_mark,
                   voice_targets, db_targets, db_sessions, tasks>>

\* followup.send of a total (lines 540-541, 567-568) and of a ranking or of
\* "no record" (lines 549-559, 576-585, 593-600): an exception of the query
\* leaves the command without a reply.
SecReply(asked, r) ==
    [asked EXCEPT !.raised = r.raised, !.msg = IF r.raised THEN "none" ELSE "sec",
                  !.sec = r.sec]
ListReply(asked, r) ==
    [asked EXCEPT !.raised = r.raised,
                  !.msg = IF r.raised THEN "none" ELSE IF r.list = <<>> THEN "empty" ELSE "list",
                  !.list = r.list]
CsvReply(asked, r) ==
    [asked EXCEPT !.raised = r.raised, !.msg = IF r.raised THEN "none" ELSE "csv",
                  !.csv = r.csv]

\* /vt user (lines 561-568), and /vt my (lines 534-541) with the caller as
\* member.
vt_user(gid, uid, from_str, to_str) ==
    /\ events = 0
    /\ Answer(SecReply(Asked("user", Some(<<gid, uid>>), 0, from_str, to_str),
                       total_seconds_user(db_sessions, pool, gid, uid, from_str, to_str)))

\* /vt user-detail (lines 570-585) and /vt my-detail (lines 543-559).  The
\* commands pass limit 10; the query is run with the limits of Limits.
vt_user_detail(gid, uid, limit, from_str, to_str) ==
    /\ events = 0
    /\ \E r \in total_seconds_per_channel_user(db_sessions, pool, gid, uid, limit,
                                               from_str, to_str) :
          Answer(ListReply(Asked("user-detail", Some(<<gid, uid>>), limit, from_str, to_str), r))

\* /vt top (lines 587-600).
vt_top(gid, limit, from_str, to_str) ==
    /\ events = 0
    /\ \E r \in top_users_between(db_sessions, pool, gid, limit, from_str, to_str) :
          Answer(ListReply(Asked("top", Some(<<gid>>), limit, from_str, to_str), r))

\* /vt export (lines 602-638).
vt_export(gid, from_str, to_str) ==
    /\ events = 0
    /\ IF ~pool
       THEN Answer([Asked("export", Some(<<gid>>), 0, from_str, to_str) EXCEPT !.msg = "config"])
       ELSE \E r \in Export(db_sessions, <<Pred("guild_id", "=", 1)>>, <<IntArg(gid)>>,
                            from_str, to_str) :
               Answer(CsvReply(Asked("export", Some(<<gid>>), 0, from_str, to_str), r))

\* /vt export-user (lines 640-674).
vt_export_user(gid, uid, from_str, to_str) ==
    /\ events = 0
    /\ IF ~pool
       THEN Answer([Asked("export-user", Some(<<gid, uid>>), 0, from_str, to_str) EXCEPT
                       !.msg = "config"])
       ELSE \E r \in Export(db_sessions,
                            <<Pred("guild_id", "=", 1), Pred("user_id", "=", 2)>>,
                            <<IntArg(gid), IntArg(uid)>>, from_str, to_str) :
               Answer(CsvReply(Asked("export-user", Some(<<gid, uid>>), 0, from_str, to_str), r))

Query ==
    \/ \E g \in GuildIds, u \in QueryMembers, f \in DateStrings, t \in DateStrings :
          vt_user(g, u, f, t)
    \/ \E g \in GuildIds, u \in QueryMembers, n \in Limits, f \in DateStrings, t \in DateStrings :
          vt_user_detail(g, u, n, f, t)
    \/ \E g \in GuildIds, n \in Limits, f \in DateStrings, t \in DateStrings :
          vt_top(g, n, f, t)
    \/ \E g \in GuildIds, f \in DateStrings, t \in DateStrings : vt_export(g, f, t)
    \/ \E g \in GuildIds, u \in QueryMembers, f \in DateStrings, t \in DateStrings :
          vt_export_user(g, u, f, t)

\* Without a pool nothing was ever persisted; a pool needs DATABASE_URL.
InitQuery ==
    /\ pool \in BOOLEAN
    /\ database_url \in BOOLEAN
    /\ pool => database_url
    /\ started = TRUE
    /\ now = 0
    /\ voice = [m \in GuildIds \X MemberIds |-> None]
    /\ voice_sessions = {}
    /\ zero_mark = {}
    /\ voice_targets = [g \in GuildIds |-> None]
    /\ db_targets = {}
    /\ db_sessions \in QueryTables
    /\ ~pool => db_sessions = <<>>
    /\ tasks = <<>>
    /\ events = 0
    /\ last = Quiet

SpecQuery == InitQuery /\ [][Query]_vars

\* ------------------------------------------------- the claims on the queries
Queried == last.cmd \in {"user", "user-detail", "top", "export", "export-user"}
FixedOffsetMidnight(d) == d * 86400 - 9 * 3600

\* C21: build_utc_range maps the from-date D to the instant of D 00:00 at the
\* fixed offset UTC+9, and the to-date D to the instant of (D + 1 day) 00:00
\* at UTC+9.
C21_FixedOffsetWindow ==
    Queried =>
        build_utc_range(last.from_, last.to) =
            [start_utc |-> {FixedOffsetMidnight(d) : d \in parse_ymd(last.from_)},
             end_utc |-> {FixedOffsetMidnight(d + 1) : d \in parse_ymd(last.to)}]

\* A query from 2024-01-02 to 2024-01-02 has the window
\* [2024-01-01T15:00Z, 2024-01-02T15:00Z), 24 hours wide.
C21_Witness ==
    /\ Queried
    /\ last.from_ = Some(<<"2", "0", "2", "4", "-", "0", "1", "-", "0", "2">>)
    /\ last.to = last.from_
    /\ build_utc_range(last.from_, last.to) =
          [start_utc |-> Some(1704121200), end_utc |-> Some(1704121200 + 24 * 3600)]

\* The rows of the asker's guild (and member, where the query names one) that
\* overlap the window: those with end > S where S is given and start < E where
\* E is given.
InWindow(tbl, who, r) ==
    {i \in 1..Len(tbl) :
        /\ tbl[i].guild_id = who[1]
        /\ Len(who) = 2 => tbl[i].user_id = who[2]
        /\ \A S \in r.start_utc : tbl[i].end_utc > S
        /\ \A E \in r.end_utc : tbl[i].start_utc < E}

Least(a, b) == IF a < b THEN a ELSE b

\* The reply l shows the rows W of the table and no others: their summed
\* seconds, their groups up to the limit, or one line for each.
Shows(l, tbl, W) ==
    /\ ~l.raised
    /\ l.cmd = "user" => l.msg = "sec" /\ l.sec = SumEpoch(tbl, W)
    /\ l.cmd = "user-detail" =>
          /\ {l.list[k] : k \in DOMAIN l.list} \subseteq GroupSums(tbl, W, "channel_id")
          /\ Len(l.list) = Least(l.limit, Cardinality(GroupSums(tbl, W, "channel_id")))
    /\ l.cmd = "top" =>
          /\ {l.list[k] : k \in DOMAIN l.list} \subseteq GroupSums(tbl, W, "user_id")
          /\ Len(l.list) = Least(l.limit, Cardinality(GroupSums(tbl, W, "user_id")))
    /\ l.cmd \in {"export", "export-user"} =>
          /\ l.msg = "csv"
          /\ Len(l.csv) = Cardinality(W)
          /\ \A row \in {CsvRow(tbl[i]) : i \in W} :
                Cardinality({k \in DOMAIN l.csv : l.csv[k] = row})
                    = Cardinality({i \in W : CsvRow(tbl[i]) = row})

ShowsWindow(l, tbl, r) == Shows(l, tbl, InWindow(tbl, The(l.member), r))
BothBounds(r) == r.start_utc # None /\ r.end_utc # None

\* C22: with both bounds given, a query or export selects a persisted
\* interval [start, end) iff end > S and start < E.
C22_BothBoundsOverlap ==
    (Queried /\ pool /\ BothBounds(build_utc_range(last.from_, last.to))) =>
        ShowsWindow(last, db_sessions, build_utc_range(last.from_, last.to))

\* The total of member 3 over 2024-01-02 is 0 when member 3 has an interval
\* that ends at S and one that begins at E.
C22_Witness ==
    /\ last.cmd = "user" /\ last.member = Some(<<1, 3>>) /\ last.msg = "sec"
    /\ last.from_ = Some(<<"2", "0", "2", "4", "-", "0", "1", "-", "0", "2">>)
    /\ last.to = last.from_
    /\ db_sessions = <<Row(1, 1, 3, WinS - 3600, WinS), Row(1, 2, 3, WinE, WinE + 3600)>>
    /\ last.sec = 0

\* C23: an absent bound leaves its side open in every query and export: with
\* only a from-date the rows with end > S are selected, with only a to-date
\* those with start < E (the query succeeds), with neither all rows of the
\* guild (and member).
C23_AbsentBoundsOpen ==
    (Queried /\ pool) => ShowsWindow(last, db_sessions, build_utc_range(last.from_, last.to))

\* With only the from-date 2024-01-02 the total of member 3 leaves out the
\* interval that ends at S and counts the one that begins at E.
C23_Witness ==
    /\ last.cmd = "user" /\ last.member = Some(<<1, 3>>) /\ last.msg = "sec"
    /\ last.from_ = Some(<<"2", "0", "2", "4", "-", "0", "1", "-", "0", "2">>)
    /\ last.to = None
    /\ db_sessions = <<Row(1, 1, 3, WinS - 3600, WinS), Row(1, 2, 3, WinE, WinE + 3600)>>
    /\ last.sec = 3600

\* The seconds from start to end of the rows I of the table, summed.
FullSeconds(tbl, I) ==
    LET full[k \in 0..Len(tbl)] ==
            IF k = 0 THEN 0
            ELSE full[k - 1] + (IF k \in I THEN tbl[k].end_utc - tbl[k].start_utc ELSE 0)
    IN full[Len(tbl)]

\* The sums the reply l shows are the full seconds of the rows W: the total,
\* and the seconds of each zone or member listed.
FullSums(l, tbl, W) ==
    /\ l.cmd = "user" => l.sec = FullSeconds(tbl, W)
    /\ l.cmd = "user-detail" =>
          \A k \in DOMAIN l.list :
              l.list[k][2] = FullSeconds(tbl, {i \in W : tbl[i].channel_id = l.list[k][1]})
    /\ l.cmd = "top" =>
          \A k \in DOMAIN l.list :
              l.list[k][2] = FullSeconds(tbl, {i \in W : tbl[i].user_id = l.list[k][1]})

\* C24: an interval a window selects adds its full duration end - start to
\* the total, to the sum of its zone and to the sum of its member, also when
\* it lies only partly in the window.
C24_FullDurationCounted ==
    (Queried /\ ~last.raised /\ last.msg # "config") =>
        FullSums(last, db_sessions,
                 InWindow(db_sessions, The(last.member), build_utc_range(last.from_, last.to)))

\* The total of member 1 over 2024-01-02 is the whole hour of an interval
\* that begins half an hour before S.
C24_Witness ==
    /\ last.cmd = "user" /\ last.member = Some(<<1, 1>>) /\ last.msg = "sec"
    /\ last.from_ = Some(<<"2", "0", "2", "4", "-", "0", "1", "-", "0", "2">>)
    /\ last.to = last.from_
    /\ db_sessions = <<Row(1, 1, 1, WinS - 1800, WinS + 1800)>>
    /\ last.sec = 3600

\* What a reply shows, and the replies a command can get from a table.
ShownOf(l) == [raised |-> l.raised, msg |-> l.msg, sec |-> l.sec, list |-> l.list, csv |-> l.csv]
RepliesTo(tbl, pl, cmd, who, limit, f, t) ==
    CASE cmd = "user" ->
            {ShownOf(SecReply(NoOp, total_seconds_user(tbl, pl, who[1], who[2], f, t)))}
      [] cmd = "user-detail" ->
            {ShownOf(ListReply(NoOp, r)) :
                r \in total_seconds_per_channel_user(tbl, pl, who[1], who[2], limit, f, t)}
      [] cmd = "top" ->
            {ShownOf(ListReply(NoOp, r)) : r \in top_users_between(tbl, pl, who[1], limit, f, t)}
      [] cmd = "export" /\ ~pl -> {ShownOf([NoOp EXCEPT !.msg = "config"])}
      [] cmd = "export" /\ pl ->
            {ShownOf(CsvReply(NoOp, r)) :
                r \in Export(tbl, <<Pred("guild_id", "=", 1)>>, <<IntArg(who[1])>>, f, t)}
      [] cmd = "export-user" /\ ~pl -> {ShownOf([NoOp EXCEPT !.msg = "config"])}
      [] cmd = "export-user" /\ pl ->
            {ShownOf(CsvReply(NoOp, r)) :
                r \in Export(tbl, <<Pred("guild_id", "=", 1), Pred("user_id", "=", 2)>>,
                             <<IntArg(who[1]), IntArg(who[2])>>, f, t)}

\* Strings that are no date: the empty one, "2024-02-30" and "2024/01/02".
Malformed ==
    {Some(<<>>),
     Some(<<"2", "0", "2", "4", "-", "0", "2", "-", "3", "0">>),
     Some(<<"2", "0", "2", "4", "/", "0", "1", "/", "0", "2">>)}
Omitting(s) == IF s \in Malformed THEN None ELSE s

\* The reply is one the same command gets with its malformed dates left out.
MalformedAsOmitted ==
    ShownOf(last) \in RepliesTo(db_sessions, pool, last.cmd, The(last.member), last.limit,
                                Omitting(last.from_), Omitting(last.to))

UnfilteredTotal(tbl, pl, g, u) == total_seconds_user(tbl, pl, g, u, None, None).sec
Replayed(l, g, u, end) ==
    IF /\ l.close # None /\ l.cstart # None
       /\ The(l.close)[1] = g /\ The(l.close)[3] = u
       /\ ~l.cz /\ end > The(l.cstart)
    THEN end - The(l.cstart)
    ELSE 0

RankedList(list, tbl, W, col, n) ==
    /\ \A i, j \in DOMAIN list : i < j => list[i][1] # list[j][1] /\ list[i][2] >= list[j][2]
    /\ \A k \in DOMAIN list :
          /\ \E i \in W : tbl[i][col] = list[k][1]
          /\ list[k][2] = FullSeconds(tbl, {i \in W : tbl[i][col] = list[k][1]})
    /\ Len(list) = Least(n, Cardinality({tbl[i][col] : i \in W}))
    /\ \A i \in W :
          (\A k \in DOMAIN list : list[k][1] # tbl[i][col]) =>
              \A k \in DOMAIN list :
                  list[k][2] >= FullSeconds(tbl, {j \in W : tbl[j][col] = tbl[i][col]})

Ranked(l, tbl, W) ==
    /\ l.cmd = "user-detail" => RankedList(l.list, tbl, W, "channel_id", l.limit)
    /\ l.cmd = "top" => RankedList(l.list, tbl, W, "user_id", l.limit)

\* C27: the per-zone breakdown and the leaderboard return one entry for each
\* zone (member) with a selected interval, carrying the sum of its selected
\* intervals, ordered by non-increasing seconds and cut to the first topN.
C27_RankedAndCut ==
    (last.cmd \in {"user-detail", "top"} /\ ~last.raised) =>
        Ranked(last, db_sessions,
               InWindow(db_sessions, The(last.member), build_utc_range(last.from_, last.to)))

\* A leaderboard of one entry over a table where member 1 has an hour and
\* member 3 an empty interval names member 1.
C27_Witness ==
    /\ last.cmd = "top" /\ last.limit = 1 /\ last.from_ = None /\ last.to = None
    /\ db_sessions = <<Row(1, 1, 3, WinS, WinS), Row(1, 1, 1, WinS - 1800, WinS + 1800)>>
    /\ last.list = <<<<1, 3600>>>>

\* C28: ties are broken deterministically: the same breakdown or leaderboard
\* over the same persisted intervals has one possible list and one topN cut.
C28_TiesDeterministic ==
    (last.cmd \in {"user-detail", "top"} /\ ~last.raised) =>
        RepliesTo(db_sessions, pool, last.cmd, The(last.member), last.limit,
                  last.from_, last.to) = {ShownOf(last)}

\* Member 1 has an hour in each of the channels 1 and 2, and the breakdown
\* cut to one entry names channel 2.
C28_Witness ==
    /\ last.cmd = "user-detail" /\ last.member = Some(<<1, 1>>) /\ last.limit = 1
    /\ last.from_ = None /\ last.to = None
    /\ db_sessions = <<Row(1, 1, 1, WinS - 1800, WinS + 1800),
                       Row(1, 2, 1, WinE - 1800, WinE + 1800)>>
    /\ last.list = <<<<2, 3600>>>>

\* The rows the filter of the aggregation queries selects for the arguments
\* of the reply l: that of top_users_between for a guild, that of
\* total_seconds_user for a member.
SelectedOf(tbl, q) == Selected(tbl, q.where, q.params)
AggregationRows(tbl, who, f, t) ==
    IF Len(who) = 2
    THEN SelectedOf(tbl, RangeQuery(<<Pred("guild_id", "=", 1), Pred("user_id", "=", 2)>>,
                                    <<IntArg(who[1]), IntArg(who[2])>>, f, t))
    ELSE SelectedOf(tbl, RangeQuery(<<Pred("guild_id", "=", 1)>>, <<IntArg(who[1])>>, f, t))

\* The CSV has one line for each of the rows W, with its seconds.
OneLineEach(csv, tbl, W) ==
    /\ Len(csv) = Cardinality(W)
    /\ \A k \in DOMAIN csv : csv[k].duration_sec >= 0
    /\ \A i \in W :
          Cardinality({k \in DOMAIN csv : csv[k] = CsvRow(tbl[i])})
              = Cardinality({j \in W : CsvRow(tbl[j]) = CsvRow(tbl[i])})

\* C29: an export has as many rows as the filter of the aggregation query
\* selects intervals for the same guild, member, from and to: one row for each
\* matching interval, not aggregated, each with a duration end - start >= 0.
C29_ExportRowPerInterval ==
    (last.cmd \in {"export", "export-user"} /\ last.msg = "csv") =>
        OneLineEach(last.csv, db_sessions,
                    AggregationRows(db_sessions, The(last.member), last.from_, last.to))

\* The export of guild 1 over 2024-01-02 has two lines for the two intervals
\* of member 1 that straddle S and E.
C29_Witness ==
    /\ last.cmd = "export" /\ last.msg = "csv"
    /\ last.from_ = Some(<<"2", "0", "2", "4", "-", "0", "1", "-", "0", "2">>)
    /\ last.to = last.from_
    /\ db_sessions = <<Row(1, 1, 1, WinS - 1800, WinS + 1800),
                       Row(1, 2, 1, WinE - 1800, WinE + 1800)>>
    /\ Len(last.csv) = 2

\* ------------------------------------------- notifications on registered zones
\* The runs in which every zone is registered and cached from the start, no
\* statement fails, and only voice notifications of members are delivered.
InitRegistered ==
    /\ database_url = TRUE /\ started = TRUE /\ pool = TRUE
    /\ now = 0
    /\ voice \in [GuildIds \X MemberIds -> Opt(ChannelIds)]
    /\ voice_sessions = {}
    /\ zero_mark = {}
    /\ voice_targets = [g \in GuildIds |-> Some(ChannelIds)]
    /\ db_targets = GuildIds \X ChannelIds
    /\ db_sessions = <<>>
    /\ tasks = <<>>
    /\ events = 0
    /\ last = NoOp

Delivered ==
    \/ Tick
    \/ \E g \in GuildIds, u \in MemberIds, a \in Opt(ChannelIds) :
          on_voice_state_update(g, u, a, TRUE)
    \/ \E i \in 1..MaxEvents : save_resume(i)

SpecRegistered == InitRegistered /\ [][Delivered]_vars

\* C30: once every delivered notification has been processed to its end, an
\* OpenSession for (g, z, s) exists only if s is in zone z, as the latest
\* notification of s left it.
C30_SessionOnlyWhereMemberIs ==
    tasks = <<>> =>
        \A e \in voice_sessions : voice[<<e[1][1], e[1][3]>>] = Some(e[1][2])

\* Member 1 moved from channel 1 to channel 2 and left; both notifications
\* are processed, one interval of channel 1 is persisted, and a session of
\* channel 2 is open.
C30_Witness ==
    /\ tasks = <<>>
    /\ voice[<<1, 1>>] = None
    /\ HasKey(voice_sessions, <<1, 2, 1>>)
    /\ Len(db_sessions) = 1 /\ db_sessions[1].channel_id = 1

\* ------------------------------------------- the last claims on the registry
\* The step that runs lines 1177-1194 for a notification of member u of guild g
\* whose before.channel and after.channel are both channel c, a channel of the
\* guild's cached set that holds a session of the member.
SameZone(g, u, c) ==
    /\ voice[<<g, u>>] = Some(c) /\ voice'[<<g, u>>] = Some(c)
    /\ events' = events + 1 /\ last'.ev = "vsu"
    /\ c \in Cache(voice_targets, g)
    /\ HasKey(voice_sessions, <<g, c, u>>)

\* C31: a notification whose before.channel and after.channel are the same
\* monitored channel persists no interval and, when it has ended, leaves the
\* session of that key with the start and the zero-mark it had.
C31_SameZoneUnchanged ==
    [][\A g \in GuildIds, u \in MemberIds, c \in ChannelIds :
          SameZone(g, u, c) =>
             /\ db_sessions' = db_sessions
             /\ tasks' = tasks =>
                   /\ DictGet(voice_sessions', <<g, c, u>>) = DictGet(voice_sessions, <<g, c, u>>)
                   /\ (<<g, c, u>> \in zero_mark') = (<<g, c, u>> \in zero_mark)]_vars

\* Member 1 came into channel 1 at 0; the second event, a notification that
\* stays in channel 1 at 1, has ended: it persisted the interval (0, 1) and the
\* session of the key now starts at 1.
C31_Witness ==
    /\ events = 2 /\ tasks = <<>>
    /\ voice[<<1, 1>>] = Some(1)
    /\ voice_sessions = {<<<<1, 1, 1>>, 1>>}
    /\ db_sessions = <<Row(1, 1, 1, 0, 1)>>
    /\ last.open = Some(<<1, 1, 1>>) /\ last.ostart = None

\* --------------------------------------------- loads and registrations only
\* The bot connected with a pool (setup_hook has run with DATABASE_URL set) and
\* on_ready has loaded every guild: the cached sets are the registrations of
\* target_voice_channels, whatever they are.
InitTargets ==
    /\ database_url = TRUE /\ started = TRUE /\ pool = TRUE
    /\ now = 0
    /\ voice = [m \in GuildIds \X MemberIds |-> None]
    /\ voice_sessions = {}
    /\ zero_mark = {}
    /\ db_targets \in SUBSET (GuildIds \X ChannelIds)
    /\ voice_targets = [g \in GuildIds |-> Some(SelectTargets(db_targets, g))]
    /\ db_sessions = <<>>
    /\ tasks = <<>>
    /\ events = 0
    /\ last = NoOp

\* The runs of load_voice_targets_for_guild (from on_ready) and of
\* add_voice_target_channel (from /vt set-voice) in which every statement
\* succeeds, interleaved at their awaits.
Registering ==
    \/ \E g \in GuildIds : on_ready(g, TRUE)
    \/ \E g \in GuildIds, c \in ChannelIds : vt_set_voice(g, c, TRUE)
    \/ \E i \in 1..MaxEvents : load_resume(i, TRUE)
    \/ \E i \in 1..MaxEvents : add_resume(i)

SpecTargets == InitTargets /\ [][Registering]_vars

\* No add_voice_target_channel and no load_voice_targets_for_guild is
\* suspended at its await.
NoneInFlight == \A i \in 1..Len(tasks) : tasks[i].pc \notin {"load", "ins"}

\* C32: whenever no registration and no load is in flight, the cached set of
\* every loaded guild is the guild's set of rows in target_voice_channels.
C32_CacheEqualsStore ==
    NoneInFlight =>
        \A g \in GuildIds :
            voice_targets[g] # None => The(voice_targets[g]) = SelectTargets(db_targets, g)

\* Two events, a load and a registration of channel 1, both ended with their
\* statements succeeding, the load last: the row is stored and the cached set
\* is empty.
C32_Witness ==
    /\ events = 2 /\ tasks = <<>>
    /\ db_targets = {<<1, 1>>}
    /\ voice_targets[1] = Some({})
    /\ last.cmd = "none"

\* C33: in every reachable state the zero-marked keys are keys of
\* voice_sessions: a key is in zero_mark only while it has a session.
C33_ZeroMarkSubset == \A k \in zero_mark : HasKey(voice_sessions, k)

\* /vt zero has just marked a key that had no session: it stored one first.
C33_Witness ==
    /\ last.cmd = "zero" /\ last.key # None /\ last.kstart = None
    /\ The(last.key) \in zero_mark
    /\ HasKey(voice_sessions, The(last.key))

\* The step that runs lines 1177-1194 for a notification moving member u of
\* guild g from channel a to channel b, both in the guild's cached set, in
\* which the INSERT of save_voice_session for the session of a raises.
FailedMove(g, u, a, b) ==
    /\ a # b
    /\ voice[<<g, u>>] = Some(a) /\ voice'[<<g, u>>] = Some(b)
    /\ events' = events + 1 /\ last'.ev = "vsu"
    /\ {a, b} \subseteq Cache(voice_targets, g)
    /\ last'.close = Some(<<g, a, u>>) /\ last'.save = "fail"

\* C34: in a move between two monitored channels, a failure of the write of
\* the closed interval does not prevent the open step: when the notification
\* has ended, the member has a session in the channel joined.
C34_FailedWriteStillOpens ==
    [][\A g \in GuildIds, u \in MemberIds, a \in ChannelIds, b \in ChannelIds :
          FailedMove(g, u, a, b) =>
             /\ HasKey(voice_sessions', <<g, b, u>>)
             /\ tasks' = tasks]_vars

\* Member 1 moved from channel 1 to channel 2, both monitored; the INSERT for
\* the session of channel 1 raised and the handler has ended: no coroutine is
\* left and the member has no session.
C34_Witness ==
    /\ last.ev = "vsu" /\ last.save = "fail" /\ last.raised
    /\ last.close = Some(<<1, 1, 1>>) /\ last.cstart # None
    /\ voice[<<1, 1>>] = Some(2)
    /\ Cache(voice_targets, 1) = {1, 2}
    /\ tasks = <<>>
    /\ voice_sessions = {}

\* ------------------------------------------------------ the claim on startup
\* C35: with DATABASE_URL set, the startup has created the pool before any
\* notification or command is handled: client.pool is not None in every state
\* in which on_voice_state_update, /vt set-voice or a query can run (all of
\* them run only once the client has started).
C35_PoolBeforeHandlers == (database_url /\ started) => pool

\* DATABASE_URL is set and the first event, a voice notification of member 1,
\* has been handled by lines 1177-1194 with client.pool None: the load of
\* line 1176 returned at line 393 and no channel is monitored.
C35_Witness ==
    /\ database_url /\ started /\ ~pool
    /\ events = 1 /\ last.ev = "vsu"
    /\ voice_targets[1] = Some({})
    /\ voice[<<1, 1>>] # None /\ voice_sessions = {}

\* ------------------------------------------- the claim on intervals by start
\* The rows of the asker's guild (and member, where the query names one) whose
\* start lies in the window [S, E) of r.
StartingIn(tbl, who, r) ==
    {i \in 1..Len(tbl) :
        /\ tbl[i].guild_id = who[1]
        /\ Len(who) = 2 => tbl[i].user_id = who[2]
        /\ The(r.start_utc) <= tbl[i].start_utc
        /\ tbl[i].start_utc < The(r.end_utc)}

\* The query of the reply l selects the rows W, and an export writes a line
\* for each of them.
SelectsAll(l, tbl, W) ==
    /\ W \subseteq AggregationRows(tbl, The(l.member), l.from_, l.to)
    /\ l.cmd \in {"export", "export-user"} =>
          /\ l.msg = "csv"
          /\ \A i \in W : \E k \in DOMAIN l.csv : l.csv[k] = CsvRow(tbl[i])

\* C36: the window [S, E) of a query selects every persisted interval with
\* S <= start < E, those of duration zero (zero-marked closes) included; so
\* the window of the single local day that contains an interval's start
\* selects the interval.
C36_StartInWindowSelected ==
    (Queried /\ pool /\ BothBounds(build_utc_range(last.from_, last.to))) =>
        SelectsAll(last, db_sessions,
                   StartingIn(db_sessions, The(last.member),
                              build_utc_range(last.from_, last.to)))

\* The export of member 3 over 2024-01-02, the day whose window begins at the
\* start of the member's only interval, a zero-marked close at S: the CSV has
\* no line.
C36_Witness ==
    /\ last.cmd = "export-user" /\ last.member = Some(<<1, 3>>) /\ last.msg = "csv"
    /\ last.from_ = Some(<<"2", "0", "2", "4", "-", "0", "1", "-", "0", "2">>)
    /\ last.to = last.from_
    /\ db_sessions = <<Row(1, 1, 3, WinS, WinS)>>
    /\ last.csv = <<>>

====
